---------------------------- MODULE Spec2Model ----------------------------
(***************************************************************************)
(* Availability filter and digest formatter of the pickleball court        *)
(* checker (src/src/court_availability.py, src/src/slack_notifier.py).     *)
(*                                                                         *)
(* A Python str is a tuple of one-character strings, so that split(':'),   *)
(* int() and strptime() are computed character by character; a list is a   *)
(* tuple.                                                                  *)
(***************************************************************************)
EXTENDS Integers, Sequences, FiniteSets, TLC

VARIABLES
    availabilities,  \* the record list handed to the call / checker.availabilities
    days,            \* the days selector of the call (None, or a list of str)
    times,           \* the times selector of the call (None, or a list of str)
    pc,              \* which call has completed
    filtered,        \* what filter_by_days_and_times returned
    refiltered,      \* what filter_by_days_and_times returned on its own output
    courts_out,      \* what get_available_courts returned
    time_ranges,     \* what _extract_time_ranges returned
    message,         \* what format_message returned (or the exception it raised)
    max_retries,     \* settings.max_retries
    webhook_url_set, \* whether settings.slack_webhook_url is a non-empty string
    agent_injected,  \* whether the checker was constructed with an agent
    court_index,     \* the position in courts of the loop of run (from 1)
    attempt,         \* the loop variable of check_availability
    successful_checks,
    failed_checks,
    all_court_data,  \* checker.all_court_data: court name -> None or its list
    agent_runs,      \* how often run() was awaited on the injected and on new agents
    log,             \* the checks, attempts and sleeps of the run, in order
    valid_results,   \* the record lists of the attempts with a valid JSON result
    get_calls,       \* the calls of get_available_courts: arguments and result
    sent,            \* the arguments of the calls of send_notification
    post_result,     \* "", or how requests.post ended: "ok" or "failed"
    posted,          \* the messages delivered to the webhook
    raised,          \* the exception that reached main, "" when none
    exit_code        \* what main returned, -1 before it returns

appVars == <<max_retries, webhook_url_set, agent_injected, court_index, attempt,
             successful_checks, failed_checks, all_court_data, agent_runs, log,
             valid_results, get_calls, sent, post_result, posted, raised, exit_code>>

vars == <<availabilities, days, times, pc, filtered, refiltered, courts_out,
          time_ranges, message, appVars>>

\* An Optional[List[str]] argument: None, or Some(list)
None == [some |-> FALSE, val |-> <<>>]

Some(lst) == [some |-> TRUE, val |-> lst]

-----------------------------------------------------------------------------
(* Python str primitives *)

Digits == <<"0", "1", "2", "3", "4", "5", "6", "7", "8", "9">>

IsDigit(c) == \E i \in 1..10 : Digits[i] = c

DigitVal(c) == (CHOOSE i \in 1..10 : Digits[i] = c) - 1

IsSpace(c) == c = " "

\* str.strip() as int() applies it: leading and trailing whitespace removed
RECURSIVE LStrip(_)
LStrip(s) == IF s # <<>> /\ IsSpace(Head(s)) THEN LStrip(Tail(s)) ELSE s

RECURSIVE RStrip(_)
RStrip(s) ==
    IF s # <<>> /\ IsSpace(s[Len(s)]) THEN RStrip(SubSeq(s, 1, Len(s) - 1)) ELSE s

Strip(s) == LStrip(RStrip(s))

\* s.split(sep): the fields between the occurrences of the one-character sep
RECURSIVE SplitFrom(_, _, _)
SplitFrom(s, sep, cur) ==
    IF s = <<>> THEN <<cur>>
    ELSE IF Head(s) = sep THEN <<cur>> \o SplitFrom(Tail(s), sep, <<>>)
    ELSE SplitFrom(Tail(s), sep, Append(cur, Head(s)))

Split(s, sep) == SplitFrom(s, sep, <<>>)

\* the value of a run of decimal digits, underscores skipped
RECURSIVE DigitsValue(_, _)
DigitsValue(s, acc) ==
    IF s = <<>> THEN acc
    ELSE IF Head(s) = "_" THEN DigitsValue(Tail(s), acc)
    ELSE DigitsValue(Tail(s), acc * 10 + DigitVal(Head(s)))

\* the digit part of an int() literal: digits, single underscores between them
IsIntBody(b) ==
    /\ b # <<>>
    /\ \A i \in 1..Len(b) : IsDigit(b[i]) \/ b[i] = "_"
    /\ IsDigit(b[1]) /\ IsDigit(b[Len(b)])
    /\ \A i \in 1..(Len(b) - 1) : ~(b[i] = "_" /\ b[i + 1] = "_")

\* int(s): [ok |-> FALSE] stands for ValueError
PyInt(s) ==
    LET t    == Strip(s)
        sgn  == IF t # <<>> /\ Head(t) = "-" THEN -1 ELSE 1
        body == IF t # <<>> /\ Head(t) \in {"-", "+"} THEN Tail(t) ELSE t
    IN  IF IsIntBody(body)
        THEN [ok |-> TRUE, val |-> sgn * DigitsValue(body, 0)]
        ELSE [ok |-> FALSE, val |-> 0]

\* hours, mins = map(int, s.split(':')); hours * 60 + mins
\* [ok |-> FALSE] stands for the ValueError of int() or of the unpacking
ParseMinutes(s) ==
    LET f == Split(s, ":")
    IN  IF Len(f) = 2 /\ PyInt(f[1]).ok /\ PyInt(f[2]).ok
        THEN [ok |-> TRUE, val |-> PyInt(f[1]).val * 60 + PyInt(f[2]).val]
        ELSE [ok |-> FALSE, val |-> 0]

-----------------------------------------------------------------------------
(* datetime.datetime.strptime(date_str, "%Y-%m-%d") and strftime("%A") *)

DaysOfWeek ==
    <<<<"M","o","n","d","a","y">>, <<"T","u","e","s","d","a","y">>,
      <<"W","e","d","n","e","s","d","a","y">>, <<"T","h","u","r","s","d","a","y">>,
      <<"F","r","i","d","a","y">>, <<"S","a","t","u","r","d","a","y">>,
      <<"S","u","n","d","a","y">>>>

\* %Y is \d\d\d\d
IsYearTok(t) == Len(t) = 4 /\ \A i \in 1..4 : IsDigit(t[i])

\* %m is 1[0-2]|0[1-9]|[1-9]
IsMonthTok(t) ==
    \/ Len(t) = 2 /\ t[1] = "1" /\ t[2] \in {"0", "1", "2"}
    \/ Len(t) = 2 /\ t[1] = "0" /\ IsDigit(t[2]) /\ t[2] # "0"
    \/ Len(t) = 1 /\ IsDigit(t[1]) /\ t[1] # "0"

\* %d is 3[0-1]|[1-2]\d|0[1-9]|[1-9]| [1-9]
IsDayTok(t) ==
    \/ Len(t) = 2 /\ t[1] = "3" /\ t[2] \in {"0", "1"}
    \/ Len(t) = 2 /\ t[1] \in {"1", "2"} /\ IsDigit(t[2])
    \/ Len(t) = 2 /\ t[1] \in {"0", " "} /\ IsDigit(t[2]) /\ t[2] # "0"
    \/ Len(t) = 1 /\ IsDigit(t[1]) /\ t[1] # "0"

IsLeap(y) == y % 4 = 0 /\ (y % 100 # 0 \/ y % 400 = 0)

DaysInMonth(y, m) ==
    IF m = 2 THEN (IF IsLeap(y) THEN 29 ELSE 28)
    ELSE IF m \in {4, 6, 9, 11} THEN 30 ELSE 31

RECURSIVE DaysBeforeMonth(_, _)
DaysBeforeMonth(y, m) ==
    IF m = 1 THEN 0 ELSE DaysBeforeMonth(y, m - 1) + DaysInMonth(y, m - 1)

\* date.toordinal(): day 1 is 0001-01-01
ToOrdinal(y, m, d) ==
    LET y1 == y - 1
    IN  y1 * 365 + (y1 \div 4) - (y1 \div 100) + (y1 \div 400)
          + DaysBeforeMonth(y, m) + d

\* date.weekday(): Monday is 0
Weekday(y, m, d) == (ToOrdinal(y, m, d) + 6) % 7

\* strptime(date_str, "%Y-%m-%d"): the whole string must match the pattern and
\* name a day of the calendar; [ok |-> FALSE] stands for ValueError
StrptimeDate(s) ==
    LET f == Split(s, "-")
        bad == [ok |-> FALSE, y |-> 0, m |-> 0, d |-> 0]
    IN  IF Len(f) = 3 /\ IsYearTok(f[1]) /\ IsMonthTok(f[2]) /\ IsDayTok(f[3])
        THEN LET y == DigitsValue(f[1], 0)
                 m == DigitsValue(f[2], 0)
                 d == DigitsValue(LStrip(f[3]), 0)
             IN  IF y >= 1 /\ d <= DaysInMonth(y, m)
                 THEN [ok |-> TRUE, y |-> y, m |-> m, d |-> d]
                 ELSE bad
        ELSE bad

-----------------------------------------------------------------------------
(* CourtAvailabilityChecker: the filter *)

\* a selector tested with "is not None" in place of its truthiness
TruthyIsNotNone(x) == x.some

\* Python truthiness of an optional list: None and [] are falsy
Truthy(x) == x.some /\ x.val # <<>>

\* x in lst, for a list lst
InList(x, lst) == \E i \in 1..Len(lst) : lst[i] = x

GetDayOfWeekSafe(date_str) ==
    LET p == StrptimeDate(date_str)
    IN  IF p.ok THEN DaysOfWeek[Weekday(p.y, p.m, p.d) + 1]
        ELSE IF InList(date_str, DaysOfWeek) THEN date_str
        ELSE <<>>

\* list.sort() of a list of int (insertion into the sorted prefix)
RECURSIVE InsertSorted(_, _)
InsertSorted(x, s) ==
    IF s = <<>> THEN <<x>>
    ELSE IF x < Head(s) THEN <<x>> \o s
    ELSE <<Head(s)>> \o InsertSorted(x, Tail(s))

RECURSIVE SortInts(_)
SortInts(s) == IF s = <<>> THEN <<>> ELSE InsertSorted(Head(s), SortInts(Tail(s)))

\* the first loop of _extract_time_ranges: the minutes of the entries that parse
RECURSIVE ParsedMinutes(_)
ParsedMinutes(ts) ==
    IF ts = <<>> THEN <<>>
    ELSE LET p == ParseMinutes(Head(ts))
         IN  (IF p.ok THEN <<p.val>> ELSE <<>>) \o ParsedMinutes(Tail(ts))

MaxGap == 60

\* a gap of exactly 60 minutes starting a new range
StartsNewRangeAtSixty(m, prev) == m - prev >= MaxGap

\* whether the walk starts a new range at m, the previous value being prev
StartsNewRange(m, prev) == m - prev > MaxGap

\* the second loop of _extract_time_ranges, from the state (ranges, start, prev);
\* open is FALSE while start is None
RECURSIVE WalkRanges(_, _, _, _, _)
WalkRanges(minutes, ranges, open, start, prev) ==
    IF minutes = <<>>
    THEN (IF open THEN Append(ranges, <<start, prev>>) ELSE ranges)
    ELSE LET m == Head(minutes)
         IN  IF ~open THEN WalkRanges(Tail(minutes), ranges, TRUE, m, m)
             ELSE IF StartsNewRange(m, prev)
             THEN WalkRanges(Tail(minutes), Append(ranges, <<start, prev>>), TRUE, m, m)
             ELSE WalkRanges(Tail(minutes), ranges, TRUE, start, m)

ExtractTimeRanges(ts) ==
    WalkRanges(SortInts(ParsedMinutes(ts)), <<>>, FALSE, 0, 0)

\* exact matching of the range endpoints in place of the inclusive range
IsTimeInRangesExact(time_str, ranges) ==
    LET p == ParseMinutes(time_str)
    IN  /\ p.ok
        /\ \E i \in 1..Len(ranges) : ranges[i][1] = p.val \/ ranges[i][2] = p.val

IsTimeInRanges(time_str, ranges) ==
    LET p == ParseMinutes(time_str)
    IN  /\ p.ok
        /\ \E i \in 1..Len(ranges) : ranges[i][1] <= p.val /\ p.val <= ranges[i][2]

\* the list comprehensions of filter_by_days_and_times
KeepByDay(avails, ds) ==
    SelectSeq(avails, LAMBDA a : InList(GetDayOfWeekSafe(a.date), ds))

KeepByTime(avails, ranges) ==
    SelectSeq(avails, LAMBDA a : IsTimeInRanges(a.time, ranges))

\* availabilities[::-1] in place of the copy
CopyListReversed(avails) == [i \in 1..Len(avails) |-> avails[Len(avails) + 1 - i]]

\* availabilities[1:] in place of the copy
CopyListTail(avails) == IF avails = <<>> THEN <<>> ELSE Tail(avails)

\* filtered = availabilities.copy()
CopyList(avails) == avails

FilterByDaysAndTimes(avails, ds, ts) ==
    LET copied == CopyList(avails)
        byDay  == IF Truthy(ds) THEN KeepByDay(copied, ds.val) ELSE copied
    IN  IF Truthy(ts) THEN KeepByTime(byDay, ExtractTimeRanges(ts.val)) ELSE byDay

\* get_available_courts: model_dump() copies the four fields of each record
ModelDump(a) ==
    [court |-> a.court, date |-> a.date, time |-> a.time, available |-> a.available]

GetAvailableCourts(collected, ds, ts) ==
    LET dumped == [i \in 1..Len(collected) |-> ModelDump(collected[i])]
    IN  IF Truthy(ds) \/ Truthy(ts) THEN FilterByDaysAndTimes(dumped, ds, ts)
        ELSE dumped

-----------------------------------------------------------------------------
(* SlackNotifier: the digest formatter *)

\* the characters of the model's strings, in ascending code point order
CodePoints ==
    <<" ", "+", ",", "-", "0", "1", "2", "3", "4", "5", "6", "7", "8", "9", ":",
      "A", "B", "C", "D", "E", "F", "G", "H", "I", "J", "K", "L", "M", "N", "O",
      "P", "Q", "R", "S", "T", "U", "V", "W", "X", "Y", "Z", "_",
      "a", "b", "c", "d", "e", "f", "g", "h", "i", "j", "k", "l", "m", "n", "o",
      "p", "q", "r", "s", "t", "u", "v", "w", "x", "y", "z">>

Ord(c) == CHOOSE i \in 1..Len(CodePoints) : CodePoints[i] = c

\* a < b for two str
RECURSIVE StrLess(_, _)
StrLess(a, b) ==
    IF b = <<>> THEN FALSE
    ELSE IF a = <<>> THEN TRUE
    ELSE IF Head(a) = Head(b) THEN StrLess(Tail(a), Tail(b))
    ELSE Ord(Head(a)) < Ord(Head(b))

\* sorted(keys, reverse=True) in place of sorted(keys)
RECURSIVE SortedStrsDescending(_)
SortedStrsDescending(S) ==
    IF S = {} THEN <<>>
    ELSE LET greatest == CHOOSE x \in S : \A y \in S \ {x} : StrLess(y, x)
         IN  <<greatest>> \o SortedStrsDescending(S \ {greatest})

\* sorted(keys) for a set of distinct str
RECURSIVE SortedStrs(_)
SortedStrs(S) ==
    IF S = {} THEN <<>>
    ELSE LET least == CHOOSE x \in S : \A y \in S \ {x} : StrLess(x, y)
         IN  <<least>> \o SortedStrs(S \ {least})

\* sorted(keys) for a set of distinct int
RECURSIVE SortedInts(_)
SortedInts(S) ==
    IF S = {} THEN <<>>
    ELSE LET least == CHOOSE x \in S : \A y \in S : x <= y
         IN  <<least>> \o SortedInts(S \ {least})

\* the text of a str, for the message
RECURSIVE Cat(_)
Cat(s) == IF s = <<>> THEN "" ELSE Head(s) \o Cat(Tail(s))

\* sep.join(parts), as the list of its pieces
RECURSIVE JoinWith(_, _)
JoinWith(sep, parts) ==
    IF parts = <<>> THEN <<>>
    ELSE IF Len(parts) = 1 THEN <<Head(parts)>>
    ELSE <<Head(parts), sep>> \o JoinWith(sep, Tail(parts))

\* the decimal digits of n >= 0
RECURSIVE IntChars(_)
IntChars(n) ==
    IF n < 10 THEN <<Digits[n + 1]>> ELSE Append(IntChars(n \div 10), Digits[(n % 10) + 1])

\* %M, %d: two digits, zero padded
Pad2(n) == IF n < 10 THEN <<"0">> \o IntChars(n) ELSE IntChars(n)

\* %H is 2[0-3]|[0-1]\d|\d
IsHourTok(t) ==
    \/ Len(t) = 2 /\ t[1] = "2" /\ t[2] \in {"0", "1", "2", "3"}
    \/ Len(t) = 2 /\ t[1] \in {"0", "1"} /\ IsDigit(t[2])
    \/ Len(t) = 1 /\ IsDigit(t[1])

\* %M is [0-5]\d|\d
IsMinuteTok(t) ==
    \/ Len(t) = 2 /\ t[1] \in {"0", "1", "2", "3", "4", "5"} /\ IsDigit(t[2])
    \/ Len(t) = 1 /\ IsDigit(t[1])

\* strptime(s, "%H:%M"); [ok |-> FALSE] stands for ValueError
StrptimeTime(s) ==
    LET f == Split(s, ":")
    IN  IF Len(f) = 2 /\ IsHourTok(f[1]) /\ IsMinuteTok(f[2])
        THEN [ok |-> TRUE, hour |-> DigitsValue(f[1], 0), minute |-> DigitsValue(f[2], 0)]
        ELSE [ok |-> FALSE, hour |-> 0, minute |-> 0]

\* time_obj.strftime("%-I:%M %p")
Strftime12(hour, minute) ==
    LET h12 == IF hour % 12 = 0 THEN 12 ELSE hour % 12
    IN  IntChars(h12) \o <<":">> \o Pad2(minute) \o <<" ">>
          \o (IF hour < 12 THEN <<"A", "M">> ELSE <<"P", "M">>)

MonthNames ==
    <<"January", "February", "March", "April", "May", "June", "July", "August",
      "September", "October", "November", "December">>

\* date_obj.strftime("%A, %B %d, %Y"), or the raw string when strptime raises
FormattedDate(date) ==
    LET p == StrptimeDate(date)
    IN  IF p.ok
        THEN Cat(DaysOfWeek[Weekday(p.y, p.m, p.d) + 1]) \o ", " \o MonthNames[p.m]
               \o " " \o Cat(Pad2(p.d)) \o ", " \o Cat(IntChars(p.y))
        ELSE Cat(date)

NoCourtsLine == "No available pickleball courts found for your requested times."

\* the paddle emoji U+1F3D3 and the bullet U+2022 of the literal text
Paddle == "[U+1F3D3]"

Bullet == "[U+2022]"

HeaderLine == Paddle \o " *Available Pickleball Courts* " \o Paddle

BookingLine ==
    "Book your court at https://sfrecpark.org/1591/Reservable-Pickleball-Courts"

\* a message is the list of its lines, each line the list of its pieces;
\* raised names the exception that left format_message, "" when it returned
Returned(lines) == [raised |-> "", lines |-> lines]

Raised(exc) == [raised |-> exc, lines |-> <<>>]

NoCourtsMessage == Returned(<<<<NoCourtsLine>>>>)

\* date_court_times[(date, court)]: the set of time strings of the group
GroupTimes(avails, date, court) ==
    {avails[i].time : i \in {j \in 1..Len(avails) :
                                avails[j].date = date /\ avails[j].court = court}}

GroupKeys(avails) == {<<avails[i].date, avails[i].court>> : i \in 1..Len(avails)}

\* len(times) > 1 and not all(t == list(times)[0] for t in times)
IsVaried(timeset) ==
    /\ Cardinality(timeset) > 1
    /\ \E first \in timeset : ~ \A t \in timeset : t = first

HasRealData(avails) ==
    \E k \in GroupKeys(avails) : IsVaried(GroupTimes(avails, k[1], k[2]))

\* "".join(pieces)
RECURSIVE CatAll(_)
CatAll(ps) == IF ps = <<>> THEN "" ELSE Head(ps) \o CatAll(Tail(ps))

\* the combined form without "display_hour = 12 if display_hour == 0"
HourPartZeroHour(hour, slots) ==
    LET sorted == SortedStrs(slots)
    IN  IF Len(sorted) = 1 THEN Cat(sorted[1])
        ELSE LET hour_ampm    == IF hour < 12 THEN "AM" ELSE "PM"
                 display_hour == IF hour <= 12 THEN hour ELSE hour - 12
                 minutes == [i \in 1..Len(sorted) |->
                               Cat(Split(Split(sorted[i], ":")[2], " ")[1])]
                 joined  == JoinWith(", ", minutes)
             IN  Cat(IntChars(display_hour)) \o ":" \o CatAll(joined) \o " " \o hour_ampm

\* one hour's part of a court line: slots is the set of formatted times of the hour
HourPart(hour, slots) ==
    LET sorted == SortedStrs(slots)
    IN  IF Len(sorted) = 1 THEN Cat(sorted[1])
        ELSE LET hour_ampm    == IF hour < 12 THEN "AM" ELSE "PM"
                 dh           == IF hour <= 12 THEN hour ELSE hour - 12
                 display_hour == IF dh = 0 THEN 12 ELSE dh
                 minutes == [i \in 1..Len(sorted) |->
                               Cat(Split(Split(sorted[i], ":")[2], " ")[1])]
                 joined  == JoinWith(", ", minutes)
             IN  Cat(IntChars(display_hour)) \o ":" \o CatAll(joined) \o " " \o hour_ampm

\* the times of a (date, court) group that strptime accepts, as time_slots
\* keys them by hour, and those it rejects, which are their own keys
ParsedTimes(avails, date, court) ==
    {t \in GroupTimes(avails, date, court) : StrptimeTime(t).ok}

RawTimes(avails, date, court) ==
    {t \in GroupTimes(avails, date, court) : ~StrptimeTime(t).ok}

HourKeys(avails, date, court) ==
    {StrptimeTime(t).hour : t \in ParsedTimes(avails, date, court)}

\* set(time_slots[hour]): the formatted times of one hour
SlotsOf(avails, date, court, hour) ==
    {Strftime12(StrptimeTime(t).hour, StrptimeTime(t).minute) :
       t \in {u \in ParsedTimes(avails, date, court) : StrptimeTime(u).hour = hour}}

\* sorted(time_slots.keys()) raises TypeError when the keys are both int (hours)
\* and str (times that strptime rejected)
SortedKeysRaise(avails, date, court) ==
    HourKeys(avails, date, court) # {} /\ RawTimes(avails, date, court) # {}

\* time_parts of one (date, court) group whose keys are all int or all str
TimeParts(avails, date, court) ==
    IF RawTimes(avails, date, court) = {}
    THEN [i \in 1..Cardinality(HourKeys(avails, date, court)) |->
            HourPart(SortedInts(HourKeys(avails, date, court))[i],
                     SlotsOf(avails, date, court,
                             SortedInts(HourKeys(avails, date, court))[i]))]
    ELSE [i \in 1..Cardinality(RawTimes(avails, date, court)) |->
            Cat(SortedStrs(RawTimes(avails, date, court))[i])]

\* the line of one court: bullet, name, colon, the time parts joined by " | "
CourtLine(avails, date, court) ==
    <<Bullet \o " ", Cat(court), ": ">>
      \o JoinWith(" | ", TimeParts(avails, date, court))

CourtsOn(avails, date) ==
    {avails[i].court : i \in {j \in 1..Len(avails) : avails[j].date = date}}

\* the loop over sorted_courts
RECURSIVE CourtLines(_, _, _)
CourtLines(avails, date, cs) ==
    IF cs = <<>> THEN <<>>
    ELSE <<CourtLine(avails, date, Head(cs))>> \o CourtLines(avails, date, Tail(cs))

\* the lines of one date: the bold date line, a line per court, a blank line
DateBlock(avails, date) ==
    <<<<"*", FormattedDate(date), "*">>>>
      \o CourtLines(avails, date, SortedStrs(CourtsOn(avails, date)))
      \o <<<<>>>>

\* the loop over sorted_dates
RECURSIVE Blocks(_, _)
Blocks(avails, ds) ==
    IF ds = <<>> THEN <<>>
    ELSE DateBlock(avails, Head(ds)) \o Blocks(avails, Tail(ds))

DatesOf(avails) == {avails[i].date : i \in 1..Len(avails)}

\* the digest returned right after the loop over sorted_dates, without the
\* booking line
DigestWithoutBookingLine(avails) ==
    IF \E k \in GroupKeys(avails) : SortedKeysRaise(avails, k[1], k[2])
    THEN Raised("TypeError")
    ELSE Returned(<<<<HeaderLine>>, <<>>>>
                    \o Blocks(avails, SortedStrs(DatesOf(avails))))

\* the digest: the exception leaves format_message from the first group, in
\* date and court order, whose keys cannot be sorted; no line is returned then
Digest(avails) ==
    IF \E k \in GroupKeys(avails) : SortedKeysRaise(avails, k[1], k[2])
    THEN Raised("TypeError")
    ELSE Returned(<<<<HeaderLine>>, <<>>>>
                    \o Blocks(avails, SortedStrs(DatesOf(avails)))
                    \o <<<<BookingLine>>>>)

FormatMessage(avails) ==
    IF avails = <<>> THEN NoCourtsMessage
    ELSE IF ~HasRealData(avails) THEN NoCourtsMessage
    ELSE Digest(avails)

-----------------------------------------------------------------------------
(* The strings the inputs are drawn from *)

Monday == <<"M", "o", "n", "d", "a", "y">>

Tuesday == <<"T", "u", "e", "s", "d", "a", "y">>

Wednesday == <<"W", "e", "d", "n", "e", "s", "d", "a", "y">>

Thursday == <<"T", "h", "u", "r", "s", "d", "a", "y">>

Saturday == <<"S", "a", "t", "u", "r", "d", "a", "y">>

Sunday == <<"S", "u", "n", "d", "a", "y">>

EmptyStr == <<>>

D0603 == <<"2", "0", "2", "5", "-", "0", "6", "-", "0", "3">>

D0604 == <<"2", "0", "2", "5", "-", "0", "6", "-", "0", "4">>

D0605 == <<"2", "0", "2", "5", "-", "0", "6", "-", "0", "5">>

D0607 == <<"2", "0", "2", "5", "-", "0", "6", "-", "0", "7">>

DShort == <<"2", "0", "2", "5", "-", "6", "-", "3">>

DNoSuchDay == <<"2", "0", "2", "5", "-", "0", "2", "-", "3", "0">>

DSomeday == <<"s", "o", "m", "e", "d", "a", "y">>

T0900 == <<"0", "9", ":", "0", "0">>

T0930 == <<"0", "9", ":", "3", "0">>

T95 == <<"9", ":", "5">>

T1000 == <<"1", "0", ":", "0", "0">>

T1001 == <<"1", "0", ":", "0", "1">>

T1030 == <<"1", "0", ":", "3", "0">>

T1100 == <<"1", "1", ":", "0", "0">>

T1200 == <<"1", "2", ":", "0", "0">>

T1300 == <<"1", "3", ":", "0", "0">>

T1800 == <<"1", "8", ":", "0", "0">>

T1815 == <<"1", "8", ":", "1", "5">>

T1860 == <<"1", "8", ":", "6", "0">>

T1900 == <<"1", "9", ":", "0", "0">>

T2000 == <<"2", "0", ":", "0", "0">>

T6pm == <<"6", "p", "m">>

T7pm == <<"7", "p", "m">>

TPadded == <<" ", "1", "8", " ", ":", " ", "3", "0", " ">>

TSeconds == <<"1", "8", ":", "0", "0", ":", "0", "0">>

TNegative == <<"-", "1", ":", "3", "0">>

CourtA == <<"C", "o", "u", "r", "t", " ", "A">>

CourtB == <<"C", "o", "u", "r", "t", " ", "B">>

CourtC == <<"C", "o", "u", "r", "t", " ", "C">>

CourtD == <<"C", "o", "u", "r", "t", " ", "D">>

CourtE == <<"C", "o", "u", "r", "t", " ", "E">>

CourtF == <<"C", "o", "u", "r", "t", " ", "F">>

BuenaVista == <<"B", "u", "e", "n", "a", " ", "V", "i", "s", "t", "a">>

Richmond == <<"R", "i", "c", "h", "m", "o", "n", "d">>

GoldmanTennisCenter ==
    <<"G", "o", "l", "d", "m", "a", "n", " ", "T", "e",
      "n", "n", "i", "s", " ", "C", "e", "n", "t", "e", "r">>

Jackson == <<"J", "a", "c", "k", "s", "o", "n">>

Moscone == <<"M", "o", "s", "c", "o", "n", "e">>

ParksideSquare ==
    <<"P", "a", "r", "k", "s", "i", "d",
      "e", " ", "S", "q", "u", "a", "r", "e">>

PresidioWall ==
    <<"P", "r", "e", "s", "i", "d",
      "i", "o", " ", "W", "a", "l", "l">>

Rossi == <<"R", "o", "s", "s", "i">>

SternGrove == <<"S", "t", "e", "r", "n", " ", "G", "r", "o", "v", "e">>

UpperNoe == <<"U", "p", "p", "e", "r", " ", "N", "o", "e">>

Rec(court, date, time) ==
    [court |-> court, date |-> date, time |-> time, available |-> TRUE]

-----------------------------------------------------------------------------
(* Inputs *)

MaxRecords == 2

MaxTimes == 3

MaxSlots == 3

MaxMinutes == 3

MaxCourts == 2

MaxRetriesTried == 2

MaxChecks == 2

\* the six records of test_filter_by_days_and_times
SixRecords ==
    <<Rec(CourtA, D0603, T1800), Rec(CourtB, D0603, T1900), Rec(CourtC, D0603, T2000),
      Rec(CourtD, D0604, T1800), Rec(CourtE, D0605, T1800), Rec(CourtF, D0607, T1800)>>

DefaultDays == <<Tuesday, Thursday, Saturday, Sunday>>

DefaultTimes == <<T1800, T1900>>

\* records with dates that parse, that are weekday names and that are neither,
\* and times inside a range, outside it and malformed
FilterRecords ==
    {Rec(CourtA, D0603, T1800), Rec(CourtD, D0604, T1800),
     Rec(CourtB, Tuesday, T1900), Rec(CourtE, DSomeday, T1800),
     Rec(CourtF, DNoSuchDay, T1030), Rec(CourtA, DShort, T1860),
     Rec(CourtB, D0605, T6pm), Rec(CourtC, D0603, T1200)}

ListsUpTo(S, n) == UNION {[1..k -> S] : k \in 0..n}

FilterInputs == ListsUpTo(FilterRecords, MaxRecords) \cup {SixRecords}

DaysChoices ==
    {None, Some(<<>>), Some(DefaultDays), Some(<<Wednesday>>), Some(<<EmptyStr>>)}

TimesChoices ==
    {None, Some(<<>>), Some(DefaultTimes), Some(<<T0900, T1000, T1100>>),
     Some(<<T0900, T1300>>), Some(<<T1900, T6pm, T1800>>)}

\* selector times: gaps of exactly 60, of 61 and of more, entries that do not
\* parse, and entries int() accepts that are no clock time
SelectorTimes == {T0900, T1000, T1001, T1100, T1300, T6pm, TSeconds, TNegative, TPadded}

RangeInputs == {Some(ts) : ts \in ListsUpTo(SelectorTimes, MaxTimes)}

\* slots of two courts on three dates, with times that share an hour, that
\* differ by the hour and that strptime rejects
FormatRecords ==
    {Rec(BuenaVista, D0603, T1800), Rec(BuenaVista, D0603, T1815),
     Rec(BuenaVista, D0603, T1900), Rec(BuenaVista, D0603, T6pm),
     Rec(BuenaVista, D0603, T7pm), Rec(Richmond, D0605, T1900),
     Rec(Richmond, D0603, T0930), Rec(Richmond, Tuesday, T1800)}

FormatInputs == ListsUpTo(FormatRecords, MaxSlots)

\* "HH:MM" for an hour and a minute
TimeStr(h, m) == Pad2(h) \o <<":">> \o Pad2(m)

RenderMinutes == {0, 5, 30}

\* the slots of one court on one date within the hour h, one per minute of ms
HourSlots(h, ms) == [i \in 1..Len(ms) |-> Rec(BuenaVista, D0603, TimeStr(h, ms[i]))]

OtherSlots ==
    {<<>>, <<Rec(BuenaVista, D0603, T0930)>>, <<Rec(BuenaVista, D0603, T1815)>>,
     <<Rec(BuenaVista, D0603, T95)>>}

\* one court's slots in every hour 0..23, with one or several minutes of the
\* hour, repeated and in any order, alone or with a slot of another hour
RenderInputs ==
    {HourSlots(h, ms) \o o : h \in 0..23,
                              ms \in ListsUpTo(RenderMinutes, MaxMinutes) \ {<<>>},
                              o \in OtherSlots}

NotFormatted == Returned(<<>>)

-----------------------------------------------------------------------------
(* The application: main, PickleballCourtApp and the retries of the checker *)

\* CourtFactory.create_all_courts(): the names of the courts, in list order
CreateAllCourts ==
    <<BuenaVista, GoldmanTennisCenter, Jackson, Moscone, ParksideSquare, PresidioWall,
      Richmond, Rossi, SternGrove, UpperNoe>>

\* the courts the run is followed over: the first MaxCourts of the list
Courts == SubSeq(CreateAllCourts, 1, MaxCourts)

CourtNames == {Courts[i] : i \in 1..Len(Courts)}

\* days or settings.default_days
OrDefault(arg, default) == IF Truthy(arg) THEN arg ELSE Some(default)

\* what one attempt's agent does: agent.run() (or creating the agent) raises,
\* or final_result() is None or '', a text not starting with '{', JSON that
\* fails validation, or JSON that validates to the list recs
AgentRaises == [kind |-> "raise", recs |-> <<>>]

AgentReturns(kind, recs) == [kind |-> kind, recs |-> recs]

\* lists an agent may report for a court: none, two slots of a Tuesday
\* evening, a slot of a Wednesday, and a slot whose minute is no minute
ValidLists(c) ==
    {<<>>,
     <<Rec(c, D0603, T1800), Rec(c, D0603, T1815)>>,
     <<Rec(c, D0604, T1800)>>,
     <<Rec(c, D0603, T1800), Rec(c, D0603, T1860)>>}

\* the lists of an agent whose court is checked more than once
RepeatedLists(c) == {<<>>, <<Rec(c, D0603, T1800)>>}

RepeatedOutcomes(c) ==
    {AgentRaises, AgentReturns("empty", <<>>), AgentReturns("text", <<>>),
     AgentReturns("invalid", <<>>)}
      \cup {AgentReturns("valid", recs) : recs \in RepeatedLists(c)}

AgentOutcomes(c) ==
    {AgentRaises, AgentReturns("empty", <<>>), AgentReturns("text", <<>>),
     AgentReturns("invalid", <<>>)}
      \cup {AgentReturns("valid", recs) : recs \in ValidLists(c)}

\* the result of an attempt that did not raise, as _check_availability_once
\* reads it: the parsed list, or None when nothing is stored
ParseResult(outcome) ==
    IF outcome.kind = "empty" THEN None                \* if result: is false
    ELSE IF outcome.kind = "text" THEN None            \* no leading '{'
    ELSE IF outcome.kind = "invalid" THEN None         \* model_validate_json raises
    ELSE Some(outcome.recs)

\* self.availabilities = parsed.availabilities in place of extend
ExtendReplacing(lst, more) == more

\* self.availabilities.extend(parsed.availabilities)
Extend(lst, more) == lst \o more

\* self.all_court_data[court.name] = parsed.availabilities
StoreCourtData(data, name, recs) == [data EXCEPT ![name] = Some(recs)]

\* break in place of continue
BreakAfterFailure(i, n) == n + 1

\* continue: the loop of run goes on with the next court
NextCourtAfterFailure(i, n) == i + 1

\* an error of send_notification only logged
RunSwallows(send_raised) == ""

\* the exception that leaves run: a failure of send_notification is raised
\* again as CourtCheckError
RunRaises(send_raised) == IF send_raised # "" THEN "CourtCheckError" ELSE ""

\* the handlers of main
MainExitCode(exc) ==
    IF exc = "" THEN 0
    ELSE IF exc \in {"ConfigurationError", "CourtCheckError"} THEN 1
    ELSE IF exc = "KeyboardInterrupt" THEN 0
    ELSE 1

Event(e, court, out) == [e |-> e, court |-> court, out |-> out]

\* the state of the application before main runs
AppIdle ==
    /\ max_retries = 3
    /\ webhook_url_set = TRUE
    /\ agent_injected = FALSE
    /\ court_index = 1
    /\ attempt = 0
    /\ successful_checks = 0
    /\ failed_checks = 0
    /\ all_court_data = [c \in CourtNames |-> None]
    /\ agent_runs = [injected |-> 0, created |-> 0]
    /\ log = <<>>
    /\ valid_results = <<>>
    /\ get_calls = <<>>
    /\ sent = <<>>
    /\ post_result = ""
    /\ posted = <<>>
    /\ raised = ""
    /\ exit_code = -1

-----------------------------------------------------------------------------
(* The calls *)

Init ==
    /\ availabilities \in FilterInputs
    /\ days \in DaysChoices
    /\ times \in TimesChoices
    /\ pc = "start"
    /\ filtered = <<>>
    /\ refiltered = <<>>
    /\ courts_out = <<>>
    /\ time_ranges = <<>>
    /\ message = NotFormatted
    /\ AppIdle

\* checker.filter_by_days_and_times(availabilities, days, times)
CallFilter ==
    /\ pc = "start"
    /\ filtered' = FilterByDaysAndTimes(availabilities, days, times)
    /\ pc' = "filtered"
    /\ UNCHANGED <<availabilities, days, times, refiltered, courts_out, time_ranges,
                   message>>
    /\ UNCHANGED appVars

\* checker.filter_by_days_and_times(filtered, days, times), on the earlier output
CallFilterAgain ==
    /\ pc = "filtered"
    /\ refiltered' = FilterByDaysAndTimes(filtered, days, times)
    /\ pc' = "refiltered"
    /\ UNCHANGED <<availabilities, days, times, filtered, courts_out, time_ranges,
                   message>>
    /\ UNCHANGED appVars

\* checker.get_available_courts(days, times), the collected list being availabilities
CallGetAvailableCourts ==
    /\ pc = "refiltered"
    /\ courts_out' = GetAvailableCourts(availabilities, days, times)
    /\ pc' = "collected"
    /\ UNCHANGED <<availabilities, days, times, filtered, refiltered, time_ranges,
                   message>>
    /\ UNCHANGED appVars

Next == CallFilter \/ CallFilterAgain \/ CallGetAvailableCourts

Spec == Init /\ [][Next]_vars

RangesInit ==
    /\ availabilities = <<>>
    /\ days = None
    /\ times \in RangeInputs
    /\ pc = "start"
    /\ filtered = <<>>
    /\ refiltered = <<>>
    /\ courts_out = <<>>
    /\ time_ranges = <<>>
    /\ message = NotFormatted
    /\ AppIdle

\* checker._extract_time_ranges(times)
CallExtractTimeRanges ==
    /\ pc = "start"
    /\ time_ranges' = ExtractTimeRanges(times.val)
    /\ pc' = "ranges"
    /\ UNCHANGED <<availabilities, days, times, filtered, refiltered, courts_out,
                   message>>
    /\ UNCHANGED appVars

RangesNext == CallExtractTimeRanges

RangesSpec == RangesInit /\ [][RangesNext]_vars

FormatInit ==
    /\ availabilities \in FormatInputs
    /\ days = None
    /\ times = None
    /\ pc = "start"
    /\ filtered = <<>>
    /\ refiltered = <<>>
    /\ courts_out = <<>>
    /\ time_ranges = <<>>
    /\ message = NotFormatted
    /\ AppIdle

\* notifier.format_message(availabilities)
CallFormatMessage ==
    /\ pc = "start"
    /\ message' = FormatMessage(availabilities)
    /\ pc' = "formatted"
    /\ UNCHANGED <<availabilities, days, times, filtered, refiltered, courts_out,
                   time_ranges>>
    /\ UNCHANGED appVars

FormatNext == CallFormatMessage

FormatSpec == FormatInit /\ [][FormatNext]_vars

RenderInit ==
    /\ availabilities \in RenderInputs
    /\ days = None
    /\ times = None
    /\ pc = "start"
    /\ filtered = <<>>
    /\ refiltered = <<>>
    /\ courts_out = <<>>
    /\ time_ranges = <<>>
    /\ message = NotFormatted
    /\ AppIdle

RenderNext == CallFormatMessage

RenderSpec == RenderInit /\ [][RenderNext]_vars

\* the days argument of PickleballCourtApp: absent, or the days of
\* test_run_with_specific_days_and_times
AppDaysArgs == {None, Some(<<Tuesday, Thursday>>)}

AppInit ==
    /\ availabilities = <<>>
    /\ days \in AppDaysArgs
    /\ times = None
    /\ pc = "main"
    /\ filtered = <<>>
    /\ refiltered = <<>>
    /\ courts_out = <<>>
    /\ time_ranges = <<>>
    /\ message = NotFormatted
    /\ max_retries \in 0..MaxRetriesTried
    /\ webhook_url_set \in BOOLEAN
    /\ agent_injected \in BOOLEAN
    /\ court_index = 1
    /\ attempt = 0
    /\ successful_checks = 0
    /\ failed_checks = 0
    /\ all_court_data = [c \in CourtNames |-> None]
    /\ agent_runs = [injected |-> 0, created |-> 0]
    /\ log = <<>>
    /\ valid_results = <<>>
    /\ get_calls = <<>>
    /\ sent = <<>>
    /\ post_result = ""
    /\ posted = <<>>
    /\ raised = ""
    /\ exit_code = -1

\* PickleballCourtApp(...): SlackNotifier() raises without a webhook URL and
\* the constructor raises ConfigurationError, which main turns into 1
MainCreateApp ==
    /\ pc = "main"
    /\ IF webhook_url_set
       THEN /\ days' = OrDefault(days, DefaultDays)
            /\ times' = OrDefault(times, DefaultTimes)
            /\ pc' = "loop"
            /\ UNCHANGED <<raised, exit_code>>
       ELSE /\ raised' = "ConfigurationError"
            /\ exit_code' = MainExitCode("ConfigurationError")
            /\ pc' = "exited"
            /\ UNCHANGED <<days, times>>
    /\ UNCHANGED <<availabilities, filtered, refiltered, courts_out, time_ranges,
                   message, max_retries, webhook_url_set, agent_injected, court_index,
                   attempt, successful_checks, failed_checks, all_court_data,
                   agent_runs, log, valid_results, get_calls, sent, post_result,
                   posted>>

\* run: the loop reaches a court and calls check_availability
RunStartCheck ==
    /\ pc = "loop"
    /\ court_index <= Len(Courts)
    /\ log' = Append(log, Event("start", court_index, ""))
    /\ attempt' = 0
    /\ pc' = "check"
    /\ UNCHANGED <<availabilities, days, times, filtered, refiltered, courts_out,
                   time_ranges, message, max_retries, webhook_url_set, agent_injected,
                   court_index, successful_checks, failed_checks, all_court_data,
                   agent_runs, valid_results, get_calls, sent, post_result, posted,
                   raised, exit_code>>

\* _check_availability_once for the court at position c, with a new agent:
\* what it leaves in the checker
CheckAvailabilityOnce(c, outcome) ==
    /\ agent_runs' = [agent_runs EXCEPT !.created = @ + 1]
    /\ IF outcome.kind # "raise" /\ ParseResult(outcome).some
       THEN /\ all_court_data' = StoreCourtData(all_court_data, Courts[c],
                                                ParseResult(outcome).val)
            /\ availabilities' = Extend(availabilities, ParseResult(outcome).val)
       ELSE UNCHANGED <<availabilities, all_court_data>>
    /\ valid_results' =
          IF outcome.kind = "valid"
          THEN Append(valid_results, [court |-> c, recs |-> outcome.recs])
          ELSE valid_results

\* check_availability: one pass of the retry loop, _check_availability_once
\* with a new agent; the end of the check when it returns or gives up; and,
\* in run, the counters and the way to the delay or to the next court
CheckAttempt ==
    /\ pc = "check"
    /\ attempt < max_retries
    /\ \E outcome \in AgentOutcomes(Courts[court_index]) :
        /\ CheckAvailabilityOnce(court_index, outcome)
        /\
          IF outcome.kind = "raise"
          THEN /\ UNCHANGED successful_checks
               /\ IF attempt = max_retries - 1
                  THEN /\ log' = log \o <<Event("attempt", court_index, "raise"),
                                          Event("end", court_index, "CourtCheckError")>>
                       /\ failed_checks' = failed_checks + 1
                       /\ court_index' = NextCourtAfterFailure(court_index, Len(Courts))
                       /\ pc' = "loop"
                  ELSE /\ log' = Append(log, Event("attempt", court_index, "raise"))
                       /\ pc' = "retry_sleep"
                       /\ UNCHANGED <<failed_checks, court_index>>
          ELSE /\ log' = log \o <<Event("attempt", court_index, outcome.kind),
                                  Event("end", court_index, "returned")>>
               /\ successful_checks' = successful_checks + 1
               /\ UNCHANGED failed_checks
               /\ IF court_index < Len(Courts)
                  THEN pc' = "request_delay" /\ UNCHANGED court_index
                  ELSE pc' = "loop" /\ court_index' = court_index + 1
    /\ UNCHANGED <<days, times, filtered, refiltered, courts_out, time_ranges, message,
                   max_retries, webhook_url_set, agent_injected, attempt, get_calls,
                   sent, post_result, posted, raised, exit_code>>

\* check_availability: range(settings.max_retries) is exhausted without an
\* attempt having returned or given up, and the method returns None
CheckReturnNoAttempt ==
    /\ pc = "check"
    /\ attempt >= max_retries
    /\ log' = Append(log, Event("end", court_index, "returned"))
    /\ successful_checks' = successful_checks + 1
    /\ IF court_index < Len(Courts)
       THEN pc' = "request_delay" /\ UNCHANGED court_index
       ELSE pc' = "loop" /\ court_index' = court_index + 1
    /\ UNCHANGED <<availabilities, days, times, filtered, refiltered, courts_out,
                   time_ranges, message, max_retries, webhook_url_set, agent_injected,
                   attempt, failed_checks, all_court_data, agent_runs, valid_results,
                   get_calls, sent, post_result, posted, raised, exit_code>>

\* check_availability: await asyncio.sleep(1) and the next pass of the loop
CheckRetrySleep ==
    /\ pc = "retry_sleep"
    /\ log' = Append(log, Event("sleep", 0, "retry"))
    /\ attempt' = attempt + 1
    /\ pc' = "check"
    /\ UNCHANGED <<availabilities, days, times, filtered, refiltered, courts_out,
                   time_ranges, message, max_retries, webhook_url_set, agent_injected,
                   court_index, successful_checks, failed_checks, all_court_data,
                   agent_runs, valid_results, get_calls, sent, post_result, posted,
                   raised, exit_code>>

\* run: await asyncio.sleep(settings.request_delay) and the next court
RunRequestDelay ==
    /\ pc = "request_delay"
    /\ log' = Append(log, Event("sleep", 0, "request_delay"))
    /\ court_index' = court_index + 1
    /\ pc' = "loop"
    /\ UNCHANGED <<availabilities, days, times, filtered, refiltered, courts_out,
                   time_ranges, message, max_retries, webhook_url_set, agent_injected,
                   attempt, successful_checks, failed_checks, all_court_data,
                   agent_runs, valid_results, get_calls, sent, post_result, posted,
                   raised, exit_code>>

\* run: the loop is over; get_available_courts(days=self.days, times=self.times)
RunGetAvailableCourts ==
    /\ pc = "loop"
    /\ court_index > Len(Courts)
    /\ courts_out' = GetAvailableCourts(availabilities, days, times)
    /\ get_calls' = Append(get_calls, [days |-> days, times |-> times,
                                       returned |-> courts_out'])
    /\ pc' = "send"
    /\ UNCHANGED <<availabilities, days, times, filtered, refiltered, time_ranges,
                   message, max_retries, webhook_url_set, agent_injected, court_index,
                   attempt, successful_checks, failed_checks, all_court_data,
                   agent_runs, log, valid_results, sent, post_result, posted, raised,
                   exit_code>>

\* run: send_notification(availabilities) formats the message and posts it;
\* an exception of format_message or of the post is raised again by run and
\* main returns its exit code
RunSendNotification ==
    /\ pc = "send"
    /\ sent' = Append(sent, courts_out)
    /\ message' = FormatMessage(courts_out)
    /\ \E delivered \in BOOLEAN :
          /\ post_result' = IF message'.raised # "" THEN ""
                            ELSE IF delivered THEN "ok" ELSE "failed"
          /\ posted' = IF post_result' = "ok" THEN Append(posted, message') ELSE posted
          /\ raised' = RunRaises(IF message'.raised # "" THEN message'.raised
                                 ELSE IF delivered THEN ""
                                 ELSE "SlackNotificationError")
    /\ exit_code' = MainExitCode(raised')
    /\ pc' = "exited"
    /\ UNCHANGED <<availabilities, days, times, filtered, refiltered, courts_out,
                   time_ranges, max_retries, webhook_url_set, agent_injected,
                   court_index, attempt, successful_checks, failed_checks,
                   all_court_data, agent_runs, log, valid_results, get_calls>>

\* main: KeyboardInterrupt, which no "except Exception" of the application
\* catches, reaches main while the application runs
MainInterrupted ==
    /\ pc \in {"loop", "check", "retry_sleep", "request_delay", "send"}
    /\ raised' = "KeyboardInterrupt"
    /\ exit_code' = MainExitCode("KeyboardInterrupt")
    /\ pc' = "exited"
    /\ UNCHANGED <<availabilities, days, times, filtered, refiltered, courts_out,
                   time_ranges, message, max_retries, webhook_url_set, agent_injected,
                   court_index, attempt, successful_checks, failed_checks,
                   all_court_data, agent_runs, log, valid_results, get_calls, sent,
                   post_result, posted>>

AppNext ==
    \/ MainCreateApp
    \/ RunStartCheck
    \/ CheckAttempt
    \/ CheckReturnNoAttempt
    \/ CheckRetrySleep
    \/ RunRequestDelay
    \/ RunGetAvailableCourts
    \/ RunSendNotification
    \/ MainInterrupted

AppSpec == AppInit /\ [][AppNext]_vars

\* a checker constructed as in the fixture of test_court_availability.py, with
\* an agent, and called with ["Tuesday"] and ["18:00", "19:00"]
CheckerInit ==
    /\ availabilities = <<>>
    /\ days = Some(<<Tuesday>>)
    /\ times = Some(DefaultTimes)
    /\ pc = "idle"
    /\ filtered = <<>>
    /\ refiltered = <<>>
    /\ courts_out = <<>>
    /\ time_ranges = <<>>
    /\ message = NotFormatted
    /\ max_retries \in 0..MaxRetriesTried
    /\ webhook_url_set = TRUE
    /\ agent_injected = TRUE
    /\ court_index = 1
    /\ attempt = 0
    /\ successful_checks = 0
    /\ failed_checks = 0
    /\ all_court_data = [c \in CourtNames |-> None]
    /\ agent_runs = [injected |-> 0, created |-> 0]
    /\ log = <<>>
    /\ valid_results = <<>>
    /\ get_calls = <<>>
    /\ sent = <<>>
    /\ post_result = ""
    /\ posted = <<>>
    /\ raised = ""
    /\ exit_code = -1

\* await checker.check_availability(court, days, times), for any court, also
\* one checked before
CallCheckAvailability ==
    /\ pc = "idle"
    /\ Cardinality({k \in 1..Len(log) : log[k].e = "start"}) < MaxChecks
    /\ \E c \in 1..Len(Courts) :
          /\ court_index' = c
          /\ log' = Append(log, Event("start", c, ""))
    /\ attempt' = 0
    /\ pc' = "called"
    /\ UNCHANGED <<availabilities, days, times, filtered, refiltered, courts_out,
                   time_ranges, message, max_retries, webhook_url_set, agent_injected,
                   successful_checks, failed_checks, all_court_data, agent_runs,
                   valid_results, get_calls, sent, post_result, posted, raised,
                   exit_code>>

\* check_availability called on its own: one pass of the retry loop, and the
\* return or the CourtCheckError that ends the call
CalledAttempt ==
    /\ pc = "called"
    /\ attempt < max_retries
    /\ \E outcome \in RepeatedOutcomes(Courts[court_index]) :
          /\ CheckAvailabilityOnce(court_index, outcome)
          /\ IF outcome.kind # "raise"
             THEN /\ log' = log \o <<Event("attempt", court_index, outcome.kind),
                                     Event("end", court_index, "returned")>>
                  /\ pc' = "idle"
             ELSE IF attempt = max_retries - 1
             THEN /\ log' = log \o <<Event("attempt", court_index, "raise"),
                                     Event("end", court_index, "CourtCheckError")>>
                  /\ pc' = "idle"
             ELSE /\ log' = Append(log, Event("attempt", court_index, "raise"))
                  /\ pc' = "called_sleep"
    /\ UNCHANGED <<days, times, filtered, refiltered, courts_out, time_ranges, message,
                   max_retries, webhook_url_set, agent_injected, court_index, attempt,
                   successful_checks, failed_checks, get_calls, sent, post_result,
                   posted, raised, exit_code>>

\* check_availability called on its own: range(settings.max_retries) is
\* exhausted and the method returns None
CalledReturnNoAttempt ==
    /\ pc = "called"
    /\ attempt >= max_retries
    /\ log' = Append(log, Event("end", court_index, "returned"))
    /\ pc' = "idle"
    /\ UNCHANGED <<availabilities, days, times, filtered, refiltered, courts_out,
                   time_ranges, message, max_retries, webhook_url_set, agent_injected,
                   court_index, attempt, successful_checks, failed_checks,
                   all_court_data, agent_runs, valid_results, get_calls, sent,
                   post_result, posted, raised, exit_code>>

\* check_availability called on its own: await asyncio.sleep(1)
CalledRetrySleep ==
    /\ pc = "called_sleep"
    /\ log' = Append(log, Event("sleep", 0, "retry"))
    /\ attempt' = attempt + 1
    /\ pc' = "called"
    /\ UNCHANGED <<availabilities, days, times, filtered, refiltered, courts_out,
                   time_ranges, message, max_retries, webhook_url_set, agent_injected,
                   court_index, successful_checks, failed_checks, all_court_data,
                   agent_runs, valid_results, get_calls, sent, post_result, posted,
                   raised, exit_code>>

\* result = await checker.get_available_courts(), without selectors
CalledGetAvailableCourts ==
    /\ pc = "idle"
    /\ get_calls = <<>>
    /\ log # <<>>
    /\ courts_out' = GetAvailableCourts(availabilities, None, None)
    /\ get_calls' = Append(get_calls, [days |-> None, times |-> None,
                                       returned |-> courts_out'])
    /\ pc' = "got"
    /\ UNCHANGED <<availabilities, days, times, filtered, refiltered, time_ranges,
                   message, max_retries, webhook_url_set, agent_injected, court_index,
                   attempt, successful_checks, failed_checks, all_court_data,
                   agent_runs, log, valid_results, sent, post_result, posted, raised,
                   exit_code>>

CheckerNext ==
    \/ CallCheckAvailability
    \/ CalledAttempt
    \/ CalledReturnNoAttempt
    \/ CalledRetrySleep
    \/ CalledGetAvailableCourts

CheckerSpec == CheckerInit /\ [][CheckerNext]_vars

-----------------------------------------------------------------------------
(* Properties of the filter *)

FilterDone == pc \in {"filtered", "refiltered", "collected"}

\* a selector is supplied when it is a non-empty list
Supplied(x) == x.some /\ x.val # <<>>

\* the weekday the specification derives from a date: the weekday of an ISO
\* date, a weekday name itself, and no weekday for anything else
DerivedWeekday(date) ==
    IF StrptimeDate(date).ok
    THEN Some(DaysOfWeek[Weekday(StrptimeDate(date).y, StrptimeDate(date).m,
                                 StrptimeDate(date).d) + 1])
    ELSE IF InList(date, DaysOfWeek) THEN Some(date)
    ELSE None

WeekdayIn(date, ds) == DerivedWeekday(date).some /\ InList(DerivedWeekday(date).val, ds)

\* the time, in minutes since midnight, lies inclusively inside a range
\* clustered from the selector
MinutesInRanges(time, ts) ==
    /\ ParseMinutes(time).ok
    /\ \E i \in 1..Len(ExtractTimeRanges(ts)) :
          /\ ExtractTimeRanges(ts)[i][1] <= ParseMinutes(time).val
          /\ ParseMinutes(time).val <= ExtractTimeRanges(ts)[i][2]

FourOfSix == <<SixRecords[1], SixRecords[2], SixRecords[5], SixRecords[6]>>

\* C1: with a non-empty days and a non-empty times selector, the output holds
\* exactly the records whose derived weekday is a member of days and whose time
\* in minutes lies inside a clustered range; the six-record scenario with the
\* default selectors gives the four records Tue 18:00, Tue 19:00, Thu 18:00,
\* Sat 18:00.
C1_KeepsExactlyDayAndTimeMatches ==
    (FilterDone /\ Supplied(days) /\ Supplied(times)) =>
        /\ filtered = SelectSeq(availabilities,
                         LAMBDA a : WeekdayIn(a.date, days.val)
                                      /\ MinutesInRanges(a.time, times.val))
        /\ (availabilities = SixRecords /\ days.val = DefaultDays
              /\ times.val = DefaultTimes) => filtered = FourOfSix

\* C2: for a non-empty days selector (and no times selector), the output holds
\* exactly the records whose derived weekday is a member of days; a record
\* whose date neither parses nor is a weekday name is absent, whatever days
\* contains.
C2_KeepsExactlyWeekdayMembers ==
    (FilterDone /\ Supplied(days) /\ ~Supplied(times)) =>
        /\ filtered = SelectSeq(availabilities, LAMBDA a : WeekdayIn(a.date, days.val))
        /\ \A i \in 1..Len(filtered) : DerivedWeekday(filtered[i].date).some

\* the minutes of the selector entries that parse
ParsedSet(ts) == {ParseMinutes(ts[i]).val : i \in {j \in 1..Len(ts) : ParseMinutes(ts[j]).ok}}

\* C3: the ranges _extract_time_ranges emits are in ascending order, each with
\* start <= end, consecutive ranges more than 60 minutes apart, every endpoint
\* a parsed selector time, every parsed selector time in exactly one range,
\* and inside a range no gap between neighbouring parsed times exceeds 60
\* (a gap of exactly 60 extends the range); 09:00,10:00,11:00 gives the single
\* range [540,660] and 09:00,13:00 gives two ranges.
C3_RangesClusterSelectorTimes ==
    pc = "ranges" =>
        LET r == time_ranges
            P == ParsedSet(times.val)
        IN  /\ \A i \in 1..Len(r) : r[i][1] <= r[i][2]
            /\ \A i \in 1..Len(r) : r[i][1] \in P /\ r[i][2] \in P
            /\ \A i \in 1..(Len(r) - 1) : r[i + 1][1] - r[i][2] > 60
            /\ \A v \in P :
                  Cardinality({i \in 1..Len(r) : r[i][1] <= v /\ v <= r[i][2]}) = 1
            /\ \A i \in 1..Len(r) : \A v \in P :
                  (r[i][1] <= v /\ v < r[i][2]) => \E w \in P : v < w /\ w <= v + 60
            /\ (P = {}) = (r = <<>>)
            /\ times.val = <<T0900, T1000, T1100>> => r = <<<<540, 660>>>>
            /\ times.val = <<T0900, T1300>> => r = <<<<540, 540>>, <<780, 780>>>>

C3_Witness ==
    /\ pc = "ranges"
    /\ times.val = <<T1300, T6pm, T0900>>
    /\ time_ranges = <<<<540, 540>>, <<780, 780>>>>

ThreeTimes == Some(<<T0900, T1000, T1100>>)

TwoTimes == Some(<<T0900, T1300>>)

Kept(i) == InList(availabilities[i], filtered)

\* C4 as stated: a record at 12:00 passes the time filter under 09:00,10:00,
\* 11:00 and fails it under 09:00,13:00.
C4_NoonPassesThreeItemCase ==
    (FilterDone /\ ~Supplied(days)) =>
        \A i \in 1..Len(availabilities) :
            availabilities[i].time = T1200 =>
                /\ times = ThreeTimes => Kept(i)
                /\ times = TwoTimes => ~Kept(i)

\* C4 as amended: a record at 12:00 fails the time filter under 09:00,10:00,
\* 11:00 (720 lies outside [540,660]) and under 09:00,13:00; a record at 10:30
\* passes under 09:00,10:00,11:00 and fails under 09:00,13:00.
C4_NoonFailsBothCases ==
    (FilterDone /\ ~Supplied(days)) =>
        \A i \in 1..Len(availabilities) :
            /\ availabilities[i].time = T1200 =>
                  (times \in {ThreeTimes, TwoTimes} => ~Kept(i))
            /\ availabilities[i].time = T1030 =>
                  /\ times = ThreeTimes => Kept(i)
                  /\ times = TwoTimes => ~Kept(i)

C4_Witness ==
    /\ pc = "filtered"
    /\ ~Supplied(days)
    /\ times = ThreeTimes
    /\ Len(availabilities) = 2
    /\ availabilities[1].time = T1200
    /\ availabilities[2].time = T1030
    /\ Len(filtered) = 1

\* a well-formed 24-hour HH:MM value: two colon-separated integer fields with
\* hour 0..23 and minute 0..59
IsClockTime(time) ==
    LET f == Split(time, ":")
    IN  /\ Len(f) = 2
        /\ PyInt(f[1]).ok /\ PyInt(f[1]).val \in 0..23
        /\ PyInt(f[2]).ok /\ PyInt(f[2]).val \in 0..59

\* C5: for a non-empty times selector, a record whose time is not a
\* well-formed 24-hour HH:MM value is excluded from the output, and the other
\* records are filtered as they are without it.
C5_MalformedTimesExcluded ==
    (FilterDone /\ Supplied(times)) =>
        /\ \A i \in 1..Len(filtered) : IsClockTime(filtered[i].time)
        /\ filtered = FilterByDaysAndTimes(
                          SelectSeq(availabilities, LAMBDA a : IsClockTime(a.time)),
                          days, times)

\* out is a subsequence of inp: inp with some of its positions removed
RECURSIVE IsSubsequence(_, _)
IsSubsequence(out, inp) ==
    IF out = <<>> THEN TRUE
    ELSE IF inp = <<>> THEN FALSE
    ELSE IF Head(out) = Head(inp) THEN IsSubsequence(Tail(out), Tail(inp))
    ELSE IsSubsequence(out, Tail(inp))

\* C6: the output of filter_by_days_and_times is a subsequence of its input
\* (nothing added, nothing duplicated, relative order kept), for every
\* combination of selectors.
C6_OutputIsSubsequence ==
    /\ FilterDone => IsSubsequence(filtered, availabilities)
    /\ pc \in {"refiltered", "collected"} => IsSubsequence(refiltered, filtered)

C6_Witness ==
    /\ pc = "filtered"
    /\ Len(filtered) >= 2
    /\ Len(filtered) < Len(availabilities)
    /\ filtered[1] # filtered[2]

\* C7: with neither selector supplied (None or empty), filter_by_days_and_times
\* and get_available_courts return a list equal to their input.
C7_NoSelectorReturnsInput ==
    (~Supplied(days) /\ ~Supplied(times)) =>
        /\ FilterDone => filtered = availabilities
        /\ pc = "collected" => courts_out = availabilities

C7_Witness ==
    /\ pc = "collected"
    /\ days = Some(<<>>)
    /\ times = None
    /\ Len(courts_out) = 2
    /\ courts_out[1] # courts_out[2]

\* C8: filtering is idempotent: filter_by_days_and_times applied to its own
\* output with the same selectors returns that output.
C8_FilterIsIdempotent ==
    pc \in {"refiltered", "collected"} => refiltered = filtered

C8_Witness ==
    /\ pc = "refiltered"
    /\ Supplied(days) /\ Supplied(times)
    /\ Len(filtered) >= 2
    /\ Len(filtered) < Len(availabilities)

-----------------------------------------------------------------------------
(* Properties of the formatter *)

\* some (date, court) group of the input holds two or more distinct time strings
SomeGroupHasTwoTimes(avails) ==
    \E i, j \in 1..Len(avails) :
        /\ avails[i].date = avails[j].date
        /\ avails[i].court = avails[j].court
        /\ avails[i].time # avails[j].time

IsDigest(msg) == msg.raised = "" /\ Len(msg.lines) >= 1 /\ msg.lines[1] = <<HeaderLine>>

\* C9: format_message returns the fixed no-availability message exactly when
\* the input is empty or no (date, court) group holds two or more distinct
\* times, and a detailed digest starting with the header line whenever some
\* group does.
C9_NoCourtsExactlyWithoutVariedGroup ==
    pc = "formatted" =>
        /\ (message = NoCourtsMessage) =
              (availabilities = <<>> \/ ~SomeGroupHasTwoTimes(availabilities))
        /\ SomeGroupHasTwoTimes(availabilities) => IsDigest(message)

TwoRealRecords == <<Rec(BuenaVista, D0603, T1800), Rec(Richmond, D0605, T1900)>>

\* line i of the message is the court line of the named court
IsCourtLine(msg, i, court) == Len(msg.lines[i]) >= 2 /\ msg.lines[i][2] = Cat(court)

\* C10: format_message on (Buena Vista, 2025-06-03, 18:00) and (Richmond,
\* 2025-06-05, 19:00) returns a digest with the 'Available Pickleball Courts'
\* header that names both courts, each under its date, with Buena Vista's
\* date block before Richmond's.
C10_TwoRecordsGiveDigest ==
    (pc = "formatted" /\ availabilities = TwoRealRecords) =>
        /\ IsDigest(message)
        /\ \E i, j \in 1..Len(message.lines) :
              /\ i < j
              /\ IsCourtLine(message, i, BuenaVista)
              /\ IsCourtLine(message, j, Richmond)
              /\ message.lines[i - 1] = <<"*", FormattedDate(D0603), "*">>
              /\ message.lines[j - 1] = <<"*", FormattedDate(D0605), "*">>

\* the last line of a returned message
LastLine(msg) == msg.lines[Len(msg.lines)]

\* C11 as stated: for every input, the empty list and placeholder-only input
\* included, the last line of the string format_message returns is the
\* booking-link line.
C11_LastLineIsBookingLine ==
    (pc = "formatted" /\ message.raised = "") =>
        /\ Len(message.lines) >= 1
        /\ LastLine(message) = <<BookingLine>>

\* C11 as amended: the last line of every detailed digest format_message
\* returns is the booking-link line; for the empty list and for input in
\* which no (date, court) group holds two distinct times the returned string
\* is the single no-availability line, with no booking-link line.
C11_DigestEndsWithBookingLine ==
    pc = "formatted" =>
        /\ IsDigest(message) =>
              /\ LastLine(message) = <<BookingLine>>
              /\ \A i \in 1..(Len(message.lines) - 1) :
                    message.lines[i] # <<BookingLine>>
        /\ (availabilities = <<>> \/ ~SomeGroupHasTwoTimes(availabilities)) =>
              /\ message.raised = ""
              /\ message.lines = <<<<NoCourtsLine>>>>
              /\ LastLine(message) # <<BookingLine>>

C11_Witness ==
    /\ pc = "formatted"
    /\ IsDigest(message)
    /\ Len(message.lines) >= 7
    /\ LastLine(message) = <<BookingLine>>

\* the number of strings of S that precede x in lexicographic order, plus one
Rank(x, S) == Cardinality({y \in S : StrLess(y, x)}) + 1

IsDateLine(line) == Len(line) = 3 /\ line[1] = "*" /\ line[3] = "*"

IsBulletLine(line) == Len(line) >= 4 /\ line[1] = Bullet \o " "

\* the index of the k-th date line of the message
RECURSIVE DateLineAt(_, _, _)
DateLineAt(msg, k, from) ==
    IF IsDateLine(msg.lines[from])
    THEN (IF k = 1 THEN from ELSE DateLineAt(msg, k - 1, from + 1))
    ELSE DateLineAt(msg, k, from + 1)

\* C12: in every detailed digest each distinct date of the input has exactly
\* one date block and the blocks are in strictly ascending lexicographic
\* order of the date strings; within a block each distinct court of the date
\* has exactly one bullet line and the bullet lines are in strictly ascending
\* lexicographic order of the court names, whatever the order of the input.
C12_BlocksAndBulletsAscending ==
    (pc = "formatted" /\ IsDigest(message)) =>
        LET dates == DatesOf(availabilities)
            L     == message.lines
        IN  /\ Cardinality({i \in 1..Len(L) : IsDateLine(L[i])}) = Cardinality(dates)
            /\ Cardinality({i \in 1..Len(L) : IsBulletLine(L[i])})
                  = Cardinality(GroupKeys(availabilities))
            /\ \A d \in dates :
                  LET at == DateLineAt(message, Rank(d, dates), 1)
                      cs == CourtsOn(availabilities, d)
                  IN  /\ L[at] = <<"*", FormattedDate(d), "*">>
                      /\ \A c \in cs :
                            /\ IsBulletLine(L[at + Rank(c, cs)])
                            /\ L[at + Rank(c, cs)][2] = Cat(c)
                      /\ L[at + Cardinality(cs) + 1] = <<>>

C12_Witness ==
    /\ pc = "formatted"
    /\ IsDigest(message)
    /\ Len(availabilities) = 3
    /\ availabilities[1].date = D0605
    /\ availabilities[2].date = D0603
    /\ message.lines[3] = <<"*", FormattedDate(D0603), "*">>

\* the clock conventions: the hour of the 12-hour clock and its half of the day
ClockHour(h) == IF h % 12 = 0 THEN 12 ELSE h % 12

Meridiem(h) == IF h < 12 THEN "AM" ELSE "PM"

\* the elements of a set of int in ascending order
Ascending(S) ==
    CHOOSE seq \in [1..Cardinality(S) -> S] :
        \A i \in 1..(Cardinality(S) - 1) : seq[i] < seq[i + 1]

TwoDigits(n) == Cat(Pad2(n))

\* the part of an hour h whose distinct minutes are M
ExpectedPart(h, M) ==
    LET ms == Ascending(M)
    IN  Cat(IntChars(ClockHour(h))) \o ":"
          \o CatAll(JoinWith(", ", [i \in 1..Len(ms) |-> TwoDigits(ms[i])]))
          \o " " \o Meridiem(h)

HoursIn(avails) == {StrptimeTime(avails[i].time).hour : i \in 1..Len(avails)}

MinutesIn(avails, h) ==
    {StrptimeTime(avails[i].time).minute :
       i \in {j \in 1..Len(avails) : StrptimeTime(avails[j].time).hour = h}}

\* C13: in a court's bullet line the parseable times are bucketed by hour and
\* rendered as one part per hour, in ascending hour order, joined by ' | ': an
\* hour with one distinct minute is a single 12-hour time (18:00 gives
\* '6:00 PM'), an hour with several is '<12h-hour>:<min1>, <min2> <AM|PM>' with
\* the minutes ascending (18:00 and 18:15 give '6:00, 15 PM'), repeated times
\* are rendered once, and the hour and AM/PM of the combined form are those of
\* the single form for every hour 0..23 (hour 0 shows 12 AM, hour 12 12 PM).
C13_HourPartsRendered ==
    (pc = "formatted" /\ IsDigest(message)) =>
        LET hs == Ascending(HoursIn(availabilities))
        IN  /\ message.lines[4] =
                  <<Bullet \o " ", Cat(BuenaVista), ": ">>
                    \o JoinWith(" | ", [i \in 1..Len(hs) |->
                                   ExpectedPart(hs[i], MinutesIn(availabilities, hs[i]))])
            /\ GroupTimes(availabilities, D0603, BuenaVista) = {T1800, T1815} =>
                  message.lines[4][4] = "6:00, 15 PM"
            /\ GroupTimes(availabilities, D0603, BuenaVista) = {T0930, T1800} =>
                  message.lines[4][6] = "6:00 PM"

\* midnight's hour with two minutes, given out of order and one of them twice
C13_Witness ==
    /\ pc = "formatted"
    /\ availabilities = HourSlots(0, <<30, 0, 30>>)
    /\ message.lines[4][4] = "12:00, 30 AM"

\* C14: format_message never raises for records whose time fails 24-hour
\* parsing: such a time is rendered as given in its court's bullet line, for
\* every mix of times in one (date, court) group, a group with both parseable
\* and unparseable times included.
C14_UnparseableTimesRendered ==
    pc = "formatted" =>
        /\ message.raised = ""
        /\ IsDigest(message) =>
              \A i \in 1..Len(availabilities) :
                  ~StrptimeTime(availabilities[i].time).ok =>
                      \E k \in 1..Len(message.lines) :
                          /\ IsBulletLine(message.lines[k])
                          /\ message.lines[k][2] = Cat(availabilities[i].court)
                          /\ \E j \in 4..Len(message.lines[k]) :
                                message.lines[k][j] = Cat(availabilities[i].time)

-----------------------------------------------------------------------------
(* Properties of the application *)

\* the positions of the log that hold an event of kind e for court c
EventsAt(e, c) == {k \in 1..Len(log) : log[k].e = e /\ log[k].court = c}

\* the outcomes of the attempts made for court c, in order
AttemptsOf(c) ==
    LET evs == SelectSeq(log, LAMBDA ev : ev.e = "attempt" /\ ev.court = c)
    IN  [k \in 1..Len(evs) |-> evs[k].out]

\* how the check of court c ended: "" while it has not
EndOf(c) ==
    IF EventsAt("end", c) = {} THEN ""
    ELSE log[CHOOSE k \in EventsAt("end", c) : TRUE].out

CourtIndexes == 1..Len(Courts)

\* C15: for every configured max_retries, check_availability makes its
\* attempts one after another, never more than max_retries of them, and ends
\* in exactly one of two ways: it returns right after the first attempt that
\* did not raise, or it raises CourtCheckError after max_retries attempts in
\* a row have raised; it never returns without a successful attempt.
C15_ReturnsOnlyAfterSuccessfulAttempt ==
    \A c \in CourtIndexes :
        LET a == AttemptsOf(c)
        IN  /\ Len(a) <= max_retries
            /\ Cardinality(EventsAt("end", c)) <= 1
            /\ \A k \in 1..(Len(a) - 1) : a[k] = "raise"
            /\ EndOf(c) = "" => \A k \in 1..Len(a) : a[k] = "raise"
            /\ EndOf(c) = "returned" => Len(a) >= 1 /\ a[Len(a)] # "raise"
            /\ EndOf(c) = "CourtCheckError" =>
                  Len(a) = max_retries /\ a[Len(a)] = "raise"

\* C16: the court checks of run are strictly sequential, and between the end
\* of a court's check and the start of the next court's check the
\* request_delay sleep takes place, whether the earlier check succeeded or
\* failed; no such sleep follows the last court.
C16_DelayBetweenAllChecks ==
    \A k \in 1..Len(log) :
        /\ (log[k].e = "start" /\ log[k].court > 1) =>
              /\ k >= 3
              /\ log[k - 1] = Event("sleep", 0, "request_delay")
              /\ log[k - 2].e = "end" /\ log[k - 2].court = log[k].court - 1
        /\ log[k].e = "start" =>
              \A c \in 1..(log[k].court - 1) :
                  \E j \in 1..(k - 1) : log[j].e = "end" /\ log[j].court = c
        /\ log[k] = Event("sleep", 0, "request_delay") =>
              /\ k >= 2
              /\ log[k - 1].e = "end" /\ log[k - 1].court < Len(Courts)

\* the courts whose check has started, in the order of the starts
StartedCourts ==
    LET evs == SelectSeq(log, LAMBDA ev : ev.e = "start")
    IN  [k \in 1..Len(evs) |-> evs[k].court]

AllCourtsChecked ==
    /\ StartedCourts = [k \in 1..Len(Courts) |-> k]
    /\ \A c \in CourtIndexes : EndOf(c) # ""

\* run went through to the end of its try block or to its re-raise
RunWentThrough == pc = "exited" /\ raised \in {"", "CourtCheckError"}

\* C17: for every pattern of failed court checks, run checks every court of
\* the list exactly once, in list order, then calls get_available_courts
\* exactly once with the days and times of the app, then calls
\* send_notification exactly once with the list that call returned, empty or
\* not; nothing is sent before all courts have been checked.
C17_ChecksAllThenGetsThenSends ==
    /\ StartedCourts = [k \in 1..Len(StartedCourts) |-> k]
    /\ Len(get_calls) <= 1
    /\ Len(sent) <= 1
    /\ Len(sent) <= Len(get_calls)
    /\ Len(get_calls) = 1 =>
          /\ AllCourtsChecked
          /\ get_calls[1].days = days /\ get_calls[1].times = times
          /\ Supplied(get_calls[1].days) /\ Supplied(get_calls[1].times)
    /\ Len(sent) = 1 => sent[1] = get_calls[1].returned
    /\ RunWentThrough => Len(get_calls) = 1 /\ Len(sent) = 1

\* the first court's check failed, the second was checked, and the empty
\* list went to send_notification
C17_Witness ==
    /\ RunWentThrough
    /\ EndOf(1) = "CourtCheckError"
    /\ EndOf(Len(Courts)) = "returned"
    /\ sent = <<(<<>>)>>

\* C18: with an injected agent, one successful call of check_availability
\* runs the injected agent exactly once.
C18_InjectedAgentRunsOnce ==
    (agent_injected /\ EndOf(1) = "returned" /\ Len(AttemptsOf(1)) = 1
       /\ EventsAt("start", 2) = {}) =>
        agent_runs.injected = 1

AllChecksFailed == \A c \in CourtIndexes : EndOf(c) = "CourtCheckError"

RECURSIVE Concatenated(_)
Concatenated(rs) ==
    IF rs = <<>> THEN <<>> ELSE Head(rs).recs \o Concatenated(Tail(rs))

\* the valid results of court c, in order
ValidOf(c) == SelectSeq(valid_results, LAMBDA r : r.court = c)

=============================================================================
